---- MODULE Spec2Model ----
(***************************************************************************)
(* A model of the addon release pipeline (createAndSubmitPullRequest.js)   *)
(* and of the configure command (Configure.run).                           *)
(*                                                                         *)
(* The pipeline is modelled at the granularity of its awaits: one action   *)
(* per awaited call.  Every execSync call runs a shell and-or list; the    *)
(* list is interpreted command by command (RunScript) over a small model   *)
(* of the file system, the local clone and the remote, so that the exit    *)
(* status of the whole list - the only thing execSync looks at - is        *)
(* computed the way sh computes it.                                        *)
(***************************************************************************)
EXTENDS Integers, Sequences, FiniteSets, TLC

\* ------------------------------------------------------------ bounds
MaxRuns == 3      \* pipeline runs, one after the other, in one working directory
MaxFaults == 2    \* commands of one shell script that fail for a reason
                  \* outside the model (network, auth, disk, git identity)

MaxConfigureRuns == 2   \* runs of the configure command on one configuration file

Runs == 1..MaxRuns
AddonNames == {"my-addon", "other"}

\* ------------------------------------------------------------ constants of the source
secretName == "github-access-token-secret"
owner == "elamaran11"
repo == "aws-sleek-transformer"
baseBranch == "main"
CloneDir == "aws-sleek-transformer"

HeadBranch(addon) == "feature/" \o addon
PullRequestTitle(addon) == "Adding " \o addon \o " Addon"
PullRequestBody(addon) == "Adding " \o addon \o " Addon to the repository"
UnzippedDir(addon) == "unzipped-" \o addon
ArtifactName(addon) == addon \o ".tgz"
ArtifactPath(addon) == UnzippedDir(addon) \o "/" \o ArtifactName(addon)
ClonePath(file) == CloneDir \o "/" \o file

Branches == {baseBranch} \cup {HeadBranch(n) : n \in AddonNames}

\* ------------------------------------------------------------ shell commands
\* A command is a record [k |-> kind, arg |-> argument].
Cmd(k, arg) == [k |-> k, arg |-> arg]

\* The commands that can fail for a reason the model does not hold in its
\* state.  rm -rf ignores missing operands and removes what this process
\* created; mkdir, cd, cp and git branch -D succeed or fail by the state.
Fallible == {"git clone", "git checkout", "git reset --hard", "git checkout -B",
             "git add", "git commit", "git push"}

NoRepo == [exists |-> FALSE, branches |-> {}, head |-> "none", origin |-> {},
           staged |-> {}, committed |-> {}]

\* The files of the clone directory's work tree.
CloneFiles(fs) == {f \in {ArtifactName(n) : n \in AddonNames} : ClonePath(f) \in fs.files}

InRepo(st) == st.cwd = CloneDir /\ CloneDir \in st.fs.dirs /\ st.repo.exists

\* rm -rf path: removes the directory and what is below it; exit status 0.
RmRf(st, path) ==
  LET under == IF path = CloneDir
               THEN {ClonePath(ArtifactName(n)) : n \in AddonNames}
               ELSE {ArtifactPath(n) : n \in {m \in AddonNames : UnzippedDir(m) = path}}
  IN [ok |-> TRUE,
      st |-> [st EXCEPT !.fs = [dirs |-> @.dirs \ {path}, files |-> @.files \ under],
                        !.repo = IF path = CloneDir THEN NoRepo ELSE @]]

Mkdir(st, path) ==
  IF path \in st.fs.dirs THEN [ok |-> FALSE, st |-> st]
  ELSE [ok |-> TRUE, st |-> [st EXCEPT !.fs.dirs = @ \cup {path}]]

Cd(st, path) ==
  IF st.cwd = "." /\ path \in st.fs.dirs
  THEN [ok |-> TRUE, st |-> [st EXCEPT !.cwd = path]]
  ELSE [ok |-> FALSE, st |-> st]

\* git clone url . : into the (empty) current directory; the local branch is
\* the remote's default branch, every remote branch becomes origin/<branch>.
GitClone(st, fail) ==
  IF fail \/ st.cwd # CloneDir \/ st.repo.exists \/ CloneFiles(st.fs) # {}
  THEN [ok |-> FALSE, st |-> st]
  ELSE [ok |-> TRUE,
        st |-> [st EXCEPT !.repo = [exists |-> TRUE,
                                    branches |-> {st.remote.head},
                                    head |-> st.remote.head,
                                    origin |-> st.remote.branches,
                                    staged |-> {},
                                    committed |-> {}]]]

\* git checkout <branch>: an existing local branch, or a new one tracking
\* origin/<branch> when only that exists.
GitCheckout(st, branch, fail) ==
  IF fail \/ ~InRepo(st) \/ branch \notin (st.repo.branches \cup st.repo.origin)
  THEN [ok |-> FALSE, st |-> st]
  ELSE [ok |-> TRUE,
        st |-> [st EXCEPT !.repo.branches = @ \cup {branch}, !.repo.head = branch]]

\* git reset --hard origin/<branch>: the current branch and the index are set
\* to the remote-tracking ref; untracked files stay.
GitResetHard(st, branch, fail) ==
  IF fail \/ ~InRepo(st) \/ branch \notin st.repo.origin
  THEN [ok |-> FALSE, st |-> st]
  ELSE [ok |-> TRUE,
        st |-> [st EXCEPT !.repo.staged = {},
                          !.repo.committed = {c \in @ : c[1] # st.repo.head}]]

\* git branch -D <branch>: fails when there is no such branch or it is
\* the branch checked out.
GitBranchDelete(st, branch) ==
  IF ~InRepo(st) \/ branch \notin st.repo.branches \/ st.repo.head = branch
  THEN [ok |-> FALSE, st |-> st]
  ELSE [ok |-> TRUE,
        st |-> [st EXCEPT !.repo.branches = @ \ {branch},
                          !.repo.committed = {c \in @ : c[1] # branch}]]

\* git checkout -B <branch>: creates the branch at HEAD, or resets it to
\* HEAD when it exists, and checks it out.
GitCheckoutB(st, branch, fail) ==
  IF fail \/ ~InRepo(st)
  THEN [ok |-> FALSE, st |-> st]
  ELSE [ok |-> TRUE,
        st |-> [st EXCEPT !.repo.branches = @ \cup {branch},
                          !.repo.head = branch,
                          !.repo.committed =
                              {c \in @ : c[1] # branch} \cup
                              {<<branch, c[2]>> : c \in {d \in @ : d[1] = st.repo.head}}]]

\* cp ../unzipped-<addon>/<addon>.tgz . : relative to the current directory.
Cp(st, addon) ==
  IF st.cwd = CloneDir /\ CloneDir \in st.fs.dirs /\ ArtifactPath(addon) \in st.fs.files
  THEN [ok |-> TRUE,
        st |-> [st EXCEPT !.fs.files = @ \cup {ClonePath(ArtifactName(addon))}]]
  ELSE [ok |-> FALSE, st |-> st]

\* git add . : stages every file of the work tree.
GitAdd(st, fail) ==
  IF fail \/ ~InRepo(st) THEN [ok |-> FALSE, st |-> st]
  ELSE [ok |-> TRUE, st |-> [st EXCEPT !.repo.staged = CloneFiles(st.fs)]]

\* git commit -m ...: fails when nothing is staged that the branch lacks.
GitCommit(st, fail) ==
  LET new == {<<st.repo.head, f>> : f \in st.repo.staged}
  IN IF fail \/ ~InRepo(st) \/ new \subseteq st.repo.committed
     THEN [ok |-> FALSE, st |-> st]
     ELSE [ok |-> TRUE,
           st |-> [st EXCEPT !.repo.committed = @ \cup new, !.repo.staged = {}]]

\* git push -u origin <branch>
GitPush(st, branch, fail) ==
  IF fail \/ ~InRepo(st) \/ branch \notin st.repo.branches
  THEN [ok |-> FALSE, st |-> st]
  ELSE [ok |-> TRUE,
        st |-> [st EXCEPT !.remote.branches = @ \cup {branch},
                          !.remote.files = {c \in @ : c[1] # branch} \cup
                                           {c \in st.repo.committed : c[1] = branch},
                          !.repo.origin = @ \cup {branch}]]

\* One command: its exit status and the state it leaves.
Exec(c, st, faults) ==
  LET fail == c.k \in faults
  IN CASE c.k = "rm -rf"           -> RmRf(st, c.arg)
       [] c.k = "mkdir"            -> Mkdir(st, c.arg)
       [] c.k = "cd"               -> Cd(st, c.arg)
       [] c.k = "git clone"        -> GitClone(st, fail)
       [] c.k = "git checkout"     -> GitCheckout(st, c.arg, fail)
       [] c.k = "git reset --hard" -> GitResetHard(st, c.arg, fail)
       [] c.k = "git branch -D"    -> GitBranchDelete(st, c.arg)
       [] c.k = "true"             -> [ok |-> TRUE, st |-> st]
       [] c.k = "git checkout -B"  -> GitCheckoutB(st, c.arg, fail)
       [] c.k = "cp"               -> Cp(st, c.arg)
       [] c.k = "git add"          -> GitAdd(st, fail)
       [] c.k = "git commit"       -> GitCommit(st, fail)
       [] c.k = "git push"         -> GitPush(st, c.arg, fail)

\* sh's and-or list: a sequence of [op, cmd], op one of "&&", "||" (the first
\* element's op is not read).  && and || have equal precedence and associate
\* to the left: the command after && runs when the status so far is 0, the
\* command after || when it is not, and a command that does not run leaves
\* the status as it is.
RECURSIVE RunFrom(_, _, _, _, _, _)
RunFrom(script, i, st, status, log, faults) ==
  IF i > Len(script) THEN [st |-> st, ok |-> status, log |-> log]
  ELSE LET runs == \/ i = 1
                   \/ script[i].op = "&&" /\ status
                   \/ script[i].op = "||" /\ ~status
       IN IF runs
          THEN LET r == Exec(script[i].cmd, st, faults)
               IN RunFrom(script, i + 1, r.st, r.ok,
                          Append(log, [cmd |-> script[i].cmd.k, arg |-> script[i].cmd.arg,
                                       ok |-> r.ok]), faults)
          ELSE RunFrom(script, i + 1, st, status, log, faults)

\* execSync(script): a fresh shell whose current directory is the process's.
RunScript(script, files, clone, origin, faults) ==
  RunFrom(script, 1, [fs |-> files, repo |-> clone, remote |-> origin, cwd |-> "."],
          TRUE, <<>>, faults)

And(c) == [op |-> "&&", cmd |-> c]
Or(c) == [op |-> "||", cmd |-> c]

\* The faults one execution of a script can meet.
FaultSets(script) ==
  {F \in SUBSET (Fallible \cap {script[i].cmd.k : i \in 1..Len(script)}) :
     Cardinality(F) <= MaxFaults}

\* ------------------------------------------------------------ the three scripts
\* A faulty variant of CloneCmd: a trailing || true makes its status always 0.
CloneCmdTolerant ==
  << And(Cmd("rm -rf", CloneDir)),
     And(Cmd("mkdir", CloneDir)),
     And(Cmd("cd", CloneDir)),
     And(Cmd("git clone", ".")),
     Or(Cmd("true", "")) >>

\* cloneRepository's command
CloneCmd ==
  << And(Cmd("rm -rf", CloneDir)),
     And(Cmd("mkdir", CloneDir)),
     And(Cmd("cd", CloneDir)),
     And(Cmd("git clone", ".")) >>

\* A faulty variant of RepoCmd: no || true after git branch -D.
RepoCmdStrict(headBranch, addon) ==
  << And(Cmd("cd", CloneDir)),
     And(Cmd("git checkout", baseBranch)),
     And(Cmd("git reset --hard", baseBranch)),
     And(Cmd("git branch -D", headBranch)),
     And(Cmd("git checkout -B", headBranch)),
     And(Cmd("cp", addon)),
     And(Cmd("git add", ".")),
     And(Cmd("git commit", "Adding a new file")),
     And(Cmd("git push", headBranch)) >>

\* A faulty variant of RepoCmd: || true after the copy as well.
RepoCmdCopyTolerant(headBranch, addon) ==
  << And(Cmd("cd", CloneDir)),
     And(Cmd("git checkout", baseBranch)),
     And(Cmd("git reset --hard", baseBranch)),
     And(Cmd("git branch -D", headBranch)),
     Or(Cmd("true", "")),
     And(Cmd("git checkout -B", headBranch)),
     And(Cmd("cp", addon)),
     Or(Cmd("true", "")),
     And(Cmd("git add", ".")),
     And(Cmd("git commit", "Adding a new file")),
     And(Cmd("git push", headBranch)) >>

\* addFileToRepo's repoCmd
RepoCmd(headBranch, addon) ==
  << And(Cmd("cd", CloneDir)),
     And(Cmd("git checkout", baseBranch)),
     And(Cmd("git reset --hard", baseBranch)),
     And(Cmd("git branch -D", headBranch)),
     Or(Cmd("true", "")),
     And(Cmd("git checkout -B", headBranch)),
     And(Cmd("cp", addon)),
     And(Cmd("git add", ".")),
     And(Cmd("git commit", "Adding a new file")),
     And(Cmd("git push", headBranch)) >>

\* A faulty variant of CleanupCmd: the staging directory is forgotten.
CleanupCmdCloneOnly(addon) ==
  << And(Cmd("rm -rf", CloneDir)) >>

\* submitPullRequest's closing command
CleanupCmd(addon) ==
  << And(Cmd("rm -rf", UnzippedDir(addon))),
     And(Cmd("rm -rf", CloneDir)) >>

\* ------------------------------------------------------------ state
VARIABLES
  fs,           \* the working directory: [dirs, files], sets of paths
  workspace,    \* the git repository in the clone directory
  remote,       \* the hosted repository: [branches, head, files]
  pulls,        \* the pull requests of the hosted repository
  pc,           \* per run: the await the run is at
  addonName,    \* per run: inputParameters.addonName
  trace,        \* per run: the commands and calls executed, with their outcome
  logged,       \* per run: whether console.error was called
  accessToken,  \* per run: the credential held
  created,      \* per run: the pull requests the run created
  result,       \* per run: how the promise returned to the caller settled
  error,        \* per run: what the promise was rejected with
  configuration,  \* Configure: this.configuration, addon key -> record
  configFile,     \* Configure: ~/.sleek/config.json as last written
  lastRun         \* Configure: what the last run of the command did

pipelineVars == <<fs, workspace, remote, pulls, pc, addonName, trace, logged,
                  accessToken, created, result, error>>
configureVars == <<configuration, configFile, lastRun>>
vars == <<pipelineVars, configureVars>>

SecretValues == {"absent", "binary", "string"}

PullRequest(addon) ==
  [owner |-> owner, repo |-> repo, title |-> PullRequestTitle(addon),
   body |-> PullRequestBody(addon), base |-> baseBranch, head |-> HeadBranch(addon)]

\* The packaging step that runs before the pipeline leaves, for some addons,
\* unzipped-<addon>/<addon>.tgz; for others nothing.
Packaged(S) ==
  [dirs |-> {UnzippedDir(n) : n \in S}, files |-> {ArtifactPath(n) : n \in S}]

PipelineInit ==
  /\ \E S \in SUBSET AddonNames : fs = Packaged(S)
  /\ workspace = NoRepo
  /\ \E B \in SUBSET Branches : \E h \in B :
       remote = [branches |-> B, head |-> h, files |-> {}]
  /\ pulls = {}
  /\ pc = [r \in Runs |-> "idle"]
  /\ addonName = [r \in Runs |-> "none"]
  /\ trace = [r \in Runs |-> <<>>]
  /\ logged = [r \in Runs |-> FALSE]
  /\ accessToken = [r \in Runs |-> "none"]
  /\ created = [r \in Runs |-> <<>>]
  /\ result = [r \in Runs |-> "pending"]
  /\ error = [r \in Runs |-> "none"]

\* The promise of run r is rejected with e: nothing after the throw runs.
Reject(r, e) ==
  /\ pc' = [pc EXCEPT ![r] = "done"]
  /\ result' = [result EXCEPT ![r] = "rejected"]
  /\ error' = [error EXCEPT ![r] = e]

\* The locals of a call that has returned are gone, and the caller has taken
\* its result: the record of a finished run is kept until the next call.
Returned(f, initial) == [q \in Runs |-> IF pc[q] = "done" THEN initial ELSE f[q]]

\* A call of createAndSubmitPullRequest: the runs of this specification come
\* one after the other.
createAndSubmitPullRequest(r) ==
  /\ pc[r] = "idle"
  /\ \A q \in Runs : (q < r => pc[q] \in {"done", "returned"}) /\ (q > r => pc[q] = "idle")
  /\ \E n \in AddonNames : addonName' = [Returned(addonName, "none") EXCEPT ![r] = n]
  /\ pc' = [Returned(pc, "returned") EXCEPT ![r] = "cloneRepository"]
  /\ trace' = Returned(trace, <<>>)
  /\ logged' = Returned(logged, FALSE)
  /\ accessToken' = Returned(accessToken, "none")
  /\ created' = Returned(created, <<>>)
  /\ result' = Returned(result, "pending")
  /\ error' = Returned(error, "none")
  /\ UNCHANGED <<fs, workspace, remote, pulls>>
  /\ UNCHANGED configureVars

\* await cloneRepository(repoUrl): execSync throws when the script's exit
\* status is not 0.
cloneRepository(r) ==
  /\ pc[r] = "cloneRepository"
  /\ \E faults \in FaultSets(CloneCmd) :
       LET out == RunScript(CloneCmd, fs, workspace, remote, faults)
       IN /\ fs' = out.st.fs
          /\ workspace' = out.st.repo
          /\ remote' = out.st.remote
          /\ trace' = [trace EXCEPT ![r] = @ \o out.log]
          /\ IF out.ok
             THEN /\ pc' = [pc EXCEPT ![r] = "addFileToRepo"]
                  /\ UNCHANGED <<result, error>>
             ELSE Reject(r, "CloneFailed")
  /\ UNCHANGED <<pulls, addonName, logged, accessToken, created>>
  /\ UNCHANGED configureVars

\* await addFileToRepo(headBranch, addonName): the catch logs and returns.
addFileToRepo(r) ==
  /\ pc[r] = "addFileToRepo"
  /\ LET script == RepoCmd(HeadBranch(addonName[r]), addonName[r])
     IN \E faults \in FaultSets(script) :
          LET out == RunScript(script, fs, workspace, remote, faults)
          IN /\ fs' = out.st.fs
             /\ workspace' = out.st.repo
             /\ remote' = out.st.remote
             /\ trace' = [trace EXCEPT ![r] = @ \o out.log]
             /\ logged' = [logged EXCEPT ![r] = ~out.ok]
  /\ pc' = [pc EXCEPT ![r] = "getGitHubAccessToken"]
  /\ UNCHANGED <<pulls, addonName, accessToken, created, result, error>>
  /\ UNCHANGED configureVars

\* A faulty variant of getGitHubAccessToken: no typeof test, a secret that is
\* not a string is returned as it is.
getGitHubAccessTokenUnchecked(r) ==
  /\ pc[r] = "getGitHubAccessToken"
  /\ \E secret \in SecretValues :
       /\ trace' = [trace EXCEPT
                      ![r] = Append(@, [cmd |-> "getGitHubAccessToken", arg |-> secret,
                                        ok |-> secret = "string"])]
       /\ CASE secret = "absent" ->
                 Reject(r, "SecretNotFound") /\ UNCHANGED accessToken
            [] secret = "binary" ->
                 /\ accessToken' = [accessToken EXCEPT ![r] = "binary"]
                 /\ pc' = [pc EXCEPT ![r] = "submitPullRequest"]
                 /\ UNCHANGED <<result, error>>
            [] secret = "string" ->
                 /\ accessToken' = [accessToken EXCEPT ![r] = "token"]
                 /\ pc' = [pc EXCEPT ![r] = "submitPullRequest"]
                 /\ UNCHANGED <<result, error>>
  /\ UNCHANGED <<fs, workspace, remote, pulls, addonName, logged, created>>
  /\ UNCHANGED configureVars

\* const accessToken = await getGitHubAccessToken(sm, secretName)
getGitHubAccessToken(r) ==
  /\ pc[r] = "getGitHubAccessToken"
  /\ \E secret \in SecretValues :
       /\ trace' = [trace EXCEPT
                      ![r] = Append(@, [cmd |-> "getGitHubAccessToken", arg |-> secret,
                                        ok |-> secret = "string"])]
       /\ CASE secret = "absent" ->
                 Reject(r, "SecretNotFound") /\ UNCHANGED accessToken
            [] secret = "binary" ->
                 Reject(r, "SecretString is not a string.") /\ UNCHANGED accessToken
            [] secret = "string" ->
                 /\ accessToken' = [accessToken EXCEPT ![r] = "token"]
                 /\ pc' = [pc EXCEPT ![r] = "submitPullRequest"]
                 /\ UNCHANGED <<result, error>>
  /\ UNCHANGED <<fs, workspace, remote, pulls, addonName, logged, created>>
  /\ UNCHANGED configureVars

\* What the host answers to the creation of pr with a credential it accepts
\* or not.
PullsCreateOutcome(pr, authorized) ==
  IF ~authorized THEN "AuthInvalid"
  ELSE IF pr.head \notin remote.branches THEN "HeadNotFound"
  ELSE IF \E p \in pulls : p.head = pr.head /\ p.base = pr.base
       THEN "PullRequestAlreadyExists"
  ELSE "created"

\* The rest of submitPullRequest: await octokit.pulls.create(...), then the
\* cleanup command.
submitPullRequest(r) ==
  /\ pc[r] = "submitPullRequest"
  /\ \E authorized \in BOOLEAN :
       LET pr == PullRequest(addonName[r])
           outcome == PullsCreateOutcome(pr, authorized)
           out == RunScript(CleanupCmd(addonName[r]), fs, workspace, remote, {})
       IN IF outcome = "created"
          THEN /\ pulls' = pulls \cup {pr}
               /\ created' = [created EXCEPT ![r] = Append(@, pr)]
               /\ fs' = out.st.fs
               /\ workspace' = out.st.repo
               /\ trace' = [trace EXCEPT
                              ![r] = Append(@, [cmd |-> "pulls.create", arg |-> outcome,
                                                ok |-> TRUE])
                                     \o out.log]
               /\ pc' = [pc EXCEPT ![r] = "done"]
               /\ result' = [result EXCEPT ![r] = IF out.ok THEN "resolved" ELSE "rejected"]
               /\ error' = [error EXCEPT ![r] = IF out.ok THEN "none" ELSE "CleanupFailed"]
          ELSE /\ trace' = [trace EXCEPT
                              ![r] = Append(@, [cmd |-> "pulls.create", arg |-> outcome,
                                                ok |-> FALSE])]
               /\ Reject(r, outcome)
               /\ UNCHANGED <<fs, workspace, pulls, created>>
  /\ UNCHANGED <<remote, addonName, logged, accessToken>>
  /\ UNCHANGED configureVars

\* ------------------------------------------------------------ Configure
\* Strings of the configure command are sequences of characters, so that the
\* key derivation and the validators work on them as the code does.
Lower == {"a", "b", "c", "d", "e", "f", "g", "h", "i", "j", "k", "l", "m", "n", "o",
          "p", "q", "r", "s", "t", "u", "v", "w", "x", "y", "z"}
Upper == {"A", "B", "C", "D", "E", "F", "G", "H", "I", "J", "K", "L", "M", "N", "O",
          "P", "Q", "R", "S", "T", "U", "V", "W", "X", "Y", "Z"}
Digit == {"0", "1", "2", "3", "4", "5", "6", "7", "8", "9"}

\* A flag that was not passed.
Undefined == <<"undefined">>

\* The values a user can type or pass.
Names == { <<"a">>, <<"a", "@", "b">> }
Versions == { <<"1">>, <<"b", "@", "1">> }
HelmUrls == { <<"h", "t", "t", "p", ":", "/", "/", "x">>, <<"h", "t", "t", "p", ":", "/", "/">> }
AccountIds == { <<"1">>, <<"2">> }
Namespaces == { <<"n", "s", "1">>, <<"-", "n", "s">> }
Regions == { <<"u", "s", "-", "e", "a", "s", "t", "-", "1">>, <<"a", "p", "-">> }

\* The values passed as flags.
FlagNames == { <<"a">> }
FlagVersions == { <<"1">> }
FlagAccountIds == { <<"1">> }

\* getAddonKey(name, version): "{name}@{version}"
getAddonKey(name, version) == name \o <<"@">> \o version

\* getCurrentAddons(conf): the identities of the stored records, as the
\* choices of the selection menu.
getCurrentAddons(conf) ==
  {a \in [name : Names, version : Versions] :
     getAddonKey(a.name, a.version) \in DOMAIN conf}

\* /^[a-z][a-z0-9-]{1,23}[a-z0-9]$/.test(region)
isValidRegion(region) ==
  /\ Len(region) >= 1 + 1 + 1
  /\ Len(region) <= 1 + 23 + 1
  /\ region[1] \in Lower
  /\ \A i \in 2..(Len(region) - 1) : region[i] \in Lower \cup Digit \cup {"-"}
  /\ region[Len(region)] \in Lower \cup Digit

\* isValidNamespace: at most 63 characters, /^[a-z0-9]([-a-z0-9]*[a-z0-9])?$/,
\* and neither the first nor the last character a hyphen.
isValidNamespace(namespace) ==
  /\ ~(Len(namespace) > 63)
  /\ Len(namespace) >= 1
  /\ namespace[1] \in Lower \cup Digit
  /\ \A i \in 1..Len(namespace) : namespace[i] \in Lower \cup Digit \cup {"-"}
  /\ namespace[Len(namespace)] \in Lower \cup Digit
  /\ ~(namespace[1] = "-" \/ namespace[Len(namespace)] = "-")

\* The position of the first ":" of input, 0 when there is none.
FirstColon(input) ==
  IF \E i \in 1..Len(input) : input[i] = ":"
  THEN CHOOSE i \in 1..Len(input) :
         input[i] = ":" /\ \A j \in 1..(i - 1) : input[j] # ":"
  ELSE 0

SpecialSchemes == { <<"h", "t", "t", "p">>, <<"h", "t", "t", "p", "s">>, <<"f", "t", "p">>,
                    <<"w", "s">>, <<"w", "s", "s">> }

\* isValidUrl: new URL(input) does not throw.  Without a base, the input
\* needs a scheme (a letter, then letters, digits, "+", "-", ".") and a ":";
\* a special scheme needs a host after the slashes.
isValidUrl(input) ==
  LET c == FirstColon(input)
      scheme == SubSeq(input, 1, c - 1)
      rest == SubSeq(input, c + 1, Len(input))
  IN /\ c > 1
     /\ input[1] \in Lower \cup Upper
     /\ \A i \in 1..(c - 1) : input[i] \in Lower \cup Upper \cup Digit \cup {"+", "-", "."}
     /\ scheme \in SpecialSchemes => \E i \in 1..Len(rest) : rest[i] \notin {"/", "\\"}

\* A faulty variant of the assignment: the configuration is replaced by the
\* one record.
PutAlone(conf, key, record) == [k \in {key} |-> record]

\* conf[key] = record
Put(conf, key, record) ==
  [k \in DOMAIN conf \cup {key} |-> IF k = key THEN record ELSE conf[k]]

\* delete conf[key]
Delete(conf, key) == [k \in DOMAIN conf \ {key} |-> conf[k]]

EmptyConfiguration == [k \in {} |-> {}]
NoAddon == [name |-> <<>>, version |-> <<>>]

\* What the interactive prompts return: name, version and account id are
\* free; helm URL, namespace and region are asked again until valid.
Answers ==
  [addonName : Names, addonVersion : Versions,
   helmUrl : {u \in HelmUrls : isValidUrl(u)},
   marketplaceId : AccountIds,
   namespace : {n \in Namespaces : isValidNamespace(n)},
   region : {g \in Regions : isValidRegion(g)}]

\* What the command line can pass: each flag absent or given, not all absent.
FlagSets ==
  {f \in [addonName : FlagNames \cup {Undefined},
          addonVersion : FlagVersions \cup {Undefined},
          helmUrl : HelmUrls \cup {Undefined},
          marketplaceId : FlagAccountIds \cup {Undefined},
          namespace : Namespaces \cup {Undefined}, region : Regions \cup {Undefined}] :
     \E k \in DOMAIN f : f[k] # Undefined}

\* The configuration file when the command starts: empty, or one record
\* that an earlier session stored and the validate command marked.
StoredConfigurations ==
  {EmptyConfiguration} \cup
  {Put(EmptyConfiguration, getAddonKey(a.addonName, a.addonVersion),
       [helmUrl |-> a.helmUrl, accId |-> a.marketplaceId, namespace |-> a.namespace,
        region |-> a.region, validated |-> v]) : a \in Answers, v \in BOOLEAN}

ConfigureStart(conf) ==
  /\ configuration = conf
  /\ configFile = conf
  /\ lastRun = [n |-> 0, flow |-> "none", selected |-> NoAddon, entered |-> <<>>,
                before |-> conf, updated |-> FALSE]

\* this.updateConfig(): writes this.configuration to the file.
updateConfig(conf) == configFile' = conf

\* A faulty variant of the edit flow: updateConfig is called after the write
\* and before the delete of the selected key.
ConfigureEditPersistingEarly ==
  /\ lastRun.n < MaxConfigureRuns
  /\ \E selected \in getCurrentAddons(configuration) :
    \E toModify \in Answers :
      LET addOnKey == getAddonKey(selected.name, selected.version)
          written == Put(configuration,
                         getAddonKey(toModify.addonName, toModify.addonVersion),
                         [helmUrl |-> toModify.helmUrl, accId |-> toModify.marketplaceId,
                          namespace |-> toModify.namespace, region |-> toModify.region,
                          validated |-> FALSE])
          deleted == Delete(written, addOnKey)
      IN /\ updateConfig(written)
         /\ configuration' = deleted
         /\ lastRun' = [n |-> lastRun.n + 1, flow |-> "edit", selected |-> selected,
                        entered |-> toModify, before |-> configuration,
                        updated |-> TRUE]

\* run(), no flag passed, "edit an existing AddOn" confirmed.
ConfigureEdit ==
  /\ lastRun.n < MaxConfigureRuns
  /\ \E selected \in getCurrentAddons(configuration) :
    \E toModify \in Answers :
      LET addOnKey == getAddonKey(selected.name, selected.version)
          written == Put(configuration,
                         getAddonKey(toModify.addonName, toModify.addonVersion),
                         [helmUrl |-> toModify.helmUrl, accId |-> toModify.marketplaceId,
                          namespace |-> toModify.namespace, region |-> toModify.region,
                          validated |-> FALSE])
          deleted == Delete(written, addOnKey)
      IN /\ configuration' = deleted
         /\ updateConfig(deleted)
         /\ lastRun' = [n |-> lastRun.n + 1, flow |-> "edit", selected |-> selected,
                        entered |-> toModify, before |-> configuration,
                        updated |-> TRUE]

\* A faulty variant of the create flow: the record written over an existing
\* key keeps that key's validated mark.
ConfigureCreateKeepingValidated ==
  /\ lastRun.n < MaxConfigureRuns
  /\ \E addonConfig \in Answers :
    LET key == getAddonKey(addonConfig.addonName, addonConfig.addonVersion)
        written == Put(configuration, key,
                       [helmUrl |-> addonConfig.helmUrl, accId |-> addonConfig.marketplaceId,
                        namespace |-> addonConfig.namespace, region |-> addonConfig.region,
                        validated |-> IF key \in DOMAIN configuration
                                      THEN configuration[key].validated ELSE FALSE])
    IN /\ configuration' = written
       /\ updateConfig(written)
       /\ lastRun' = [n |-> lastRun.n + 1, flow |-> "create", selected |-> NoAddon,
                      entered |-> addonConfig, before |-> configuration,
                      updated |-> TRUE]

\* run(), no flag passed, a new addon.
ConfigureCreate ==
  /\ lastRun.n < MaxConfigureRuns
  /\ \E addonConfig \in Answers :
    LET written == Put(configuration,
                       getAddonKey(addonConfig.addonName, addonConfig.addonVersion),
                       [helmUrl |-> addonConfig.helmUrl, accId |-> addonConfig.marketplaceId,
                        namespace |-> addonConfig.namespace, region |-> addonConfig.region,
                        validated |-> FALSE])
    IN /\ configuration' = written
       /\ updateConfig(written)
       /\ lastRun' = [n |-> lastRun.n + 1, flow |-> "create", selected |-> NoAddon,
                      entered |-> addonConfig, before |-> configuration,
                      updated |-> TRUE]

\* The addon object run() builds from the flags: only a valid region,
\* namespace and helm URL are taken; accId stays "".
FlagAddon(flags) ==
  [region |-> IF flags.region # Undefined /\ isValidRegion(flags.region)
              THEN flags.region ELSE <<>>,
   accId |-> <<>>,
   helmUrl |-> IF flags.helmUrl # Undefined /\ isValidUrl(flags.helmUrl)
               THEN flags.helmUrl ELSE <<>>,
   namespace |-> IF flags.namespace # Undefined /\ isValidNamespace(flags.namespace)
                 THEN flags.namespace ELSE <<>>]

\* A faulty variant of the flag-driven flow: the record is written as soon
\* as the name and the version are given, without the test that every field
\* of the addon object was filled.
ConfigureFlagsUnguarded ==
  /\ lastRun.n < MaxConfigureRuns
  /\ \E flags \in FlagSets :
    LET addon == FlagAddon(flags)
        writes == /\ flags.addonName # Undefined
                  /\ flags.addonVersion # Undefined
        written == Put(configuration, getAddonKey(flags.addonName, flags.addonVersion),
                       [region |-> addon.region, accId |-> addon.accId,
                        helmUrl |-> addon.helmUrl, namespace |-> addon.namespace,
                        validated |-> FALSE])
    IN /\ IF writes
          THEN configuration' = written /\ updateConfig(written)
          ELSE UNCHANGED <<configuration, configFile>>
       /\ lastRun' = [n |-> lastRun.n + 1, flow |-> "flags", selected |-> NoAddon,
                      entered |-> flags, before |-> configuration,
                      updated |-> writes]

\* run(), some flag passed.
ConfigureFlags ==
  /\ lastRun.n < MaxConfigureRuns
  /\ \E flags \in FlagSets :
    LET addon == FlagAddon(flags)
        writes == /\ flags.addonName # Undefined
                  /\ flags.addonVersion # Undefined
                  /\ \A k \in DOMAIN addon : addon[k] # <<>>
        written == Put(configuration, getAddonKey(flags.addonName, flags.addonVersion),
                       [region |-> addon.region, accId |-> addon.accId,
                        helmUrl |-> addon.helmUrl, namespace |-> addon.namespace,
                        validated |-> FALSE])
    IN /\ IF writes
          THEN configuration' = written /\ updateConfig(written)
          ELSE UNCHANGED <<configuration, configFile>>
       /\ lastRun' = [n |-> lastRun.n + 1, flow |-> "flags", selected |-> NoAddon,
                      entered |-> flags, before |-> configuration,
                      updated |-> writes]

\* ------------------------------------------------------------ specifications
Init == PipelineInit /\ ConfigureStart(EmptyConfiguration)

\* The release pipeline: runs of createAndSubmitPullRequest, one after the other.
Next ==
  \E r \in Runs :
    \/ createAndSubmitPullRequest(r)
    \/ cloneRepository(r)
    \/ addFileToRepo(r)
    \/ getGitHubAccessToken(r)
    \/ submitPullRequest(r)

Spec == Init /\ [][Next]_vars

\* A call of createAndSubmitPullRequest from a process of its own, in the
\* same working directory, while other calls may be under way: the caller
\* holds a lock per addon name, so no call under way has the same name, and
\* there are as many processes as addon names.
createAndSubmitPullRequestConcurrently(r) ==
  /\ pc[r] = "idle"
  /\ r <= Cardinality(AddonNames)
  /\ \A q \in Runs : q < r => pc[q] # "idle"
  /\ \E n \in AddonNames :
       /\ \A q \in Runs : pc[q] \notin {"idle", "done", "returned"} => addonName[q] # n
       /\ addonName' = [Returned(addonName, "none") EXCEPT ![r] = n]
  /\ pc' = [Returned(pc, "returned") EXCEPT ![r] = "cloneRepository"]
  /\ trace' = Returned(trace, <<>>)
  /\ logged' = Returned(logged, FALSE)
  /\ accessToken' = Returned(accessToken, "none")
  /\ created' = Returned(created, <<>>)
  /\ result' = Returned(result, "pending")
  /\ error' = Returned(error, "none")
  /\ UNCHANGED <<fs, workspace, remote, pulls>>
  /\ UNCHANGED configureVars

\* The release pipeline run by several processes at once, one per call; each
\* execSync and each awaited call is one step of its process.
ConcurrentNext ==
  \E r \in Runs :
    \/ createAndSubmitPullRequestConcurrently(r)
    \/ cloneRepository(r)
    \/ addFileToRepo(r)
    \/ getGitHubAccessToken(r)
    \/ submitPullRequest(r)

\* The hosted repository has its base branch only; some addons are packaged.
ConcurrentInit ==
  /\ Init
  /\ remote.branches = {baseBranch}

ConcurrentSpec == ConcurrentInit /\ [][ConcurrentNext]_vars

\* The configure command, run again and again on the configuration it left.
ConfigureInit ==
  /\ fs = Packaged({})
  /\ workspace = NoRepo
  /\ remote = [branches |-> {baseBranch}, head |-> baseBranch, files |-> {}]
  /\ pulls = {}
  /\ pc = [r \in Runs |-> "idle"]
  /\ addonName = [r \in Runs |-> "none"]
  /\ trace = [r \in Runs |-> <<>>]
  /\ logged = [r \in Runs |-> FALSE]
  /\ accessToken = [r \in Runs |-> "none"]
  /\ created = [r \in Runs |-> <<>>]
  /\ result = [r \in Runs |-> "pending"]
  /\ error = [r \in Runs |-> "none"]
  /\ \E conf \in StoredConfigurations : ConfigureStart(conf)

ConfigureNext ==
  \/ ConfigureEdit /\ UNCHANGED pipelineVars
  \/ ConfigureCreate /\ UNCHANGED pipelineVars
  \/ ConfigureFlags /\ UNCHANGED pipelineVars

ConfigureSpec == ConfigureInit /\ [][ConfigureNext]_vars

\* ------------------------------------------------------------ reading a run's trace
Executed(r, k) == \E i \in DOMAIN trace[r] : trace[r][i].cmd = k
Succeeded(r, k) == \E i \in DOMAIN trace[r] : trace[r][i].cmd = k /\ trace[r][i].ok
Failed(r, k) == \E i \in DOMAIN trace[r] : trace[r][i].cmd = k /\ ~trace[r][i].ok

\* How many times run r executed the cleanup command (the only command that
\* removes unzipped-<addon>).
CleanupCount(r) ==
  Cardinality({i \in DOMAIN trace[r] :
                 trace[r][i].cmd = "rm -rf" /\ trace[r][i].arg = UnzippedDir(addonName[r])})

RepoCommands == {"git checkout", "git reset --hard", "git branch -D", "git checkout -B",
                 "cp", "git add", "git commit", "git push"}

\* ------------------------------------------------------------ claims

\* C1: every run that has ended, on whatever exit path, has executed the
\* cleanup command exactly once, and the clone directory and the staging
\* directory of its addon are gone.
C1_CleanupOnEveryExit ==
  \A r \in Runs :
    pc[r] = "done" =>
      /\ CleanupCount(r) = 1
      /\ CloneDir \notin fs.dirs
      /\ UnzippedDir(addonName[r]) \notin fs.dirs

\* C2: a run whose repository command failed fetches no secret, attempts no
\* pull request and does not end as a success.
C2_RepoFailureAborts ==
  \A r \in Runs :
    logged[r] =>
      /\ ~Executed(r, "getGitHubAccessToken")
      /\ ~Executed(r, "pulls.create")
      /\ result[r] # "resolved"
      /\ (pc[r] = "done" => result[r] = "rejected")

\* The steps C3 names all succeeded in run r.
AllSucceeded(r) ==
  /\ \A k \in {"git clone", "git reset --hard", "git checkout -B", "cp", "git commit",
               "git push", "getGitHubAccessToken", "pulls.create"} : Succeeded(r, k)

\* C3: a run in which clone, reset, branch creation, staging, commit, push,
\* secret fetch and pull request creation all succeeded has created exactly
\* one pull request, titled "Adding <addon> Addon", from feature/<addon>
\* into main; and at its end neither unzipped-<addon> nor the clone directory
\* exists.
C3_SuccessfulRun ==
  \A r \in Runs :
    (pc[r] = "done" /\ AllSucceeded(r)) =>
      /\ Len(created[r]) = 1
      /\ created[r][1].title = "Adding " \o addonName[r] \o " Addon"
      /\ created[r][1].head = "feature/" \o addonName[r]
      /\ created[r][1].base = "main"
      /\ created[r][1] \in pulls
      /\ ("unzipped-" \o addonName[r]) \notin fs.dirs
      /\ "aws-sleek-transformer" \notin fs.dirs
      /\ result[r] = "resolved"

C3_Witness ==
  \E r \in Runs :
    /\ pc[r] = "done" /\ AllSucceeded(r)
    /\ addonName[r] = "my-addon"
    /\ created[r] = << [owner |-> "elamaran11", repo |-> "aws-sleek-transformer",
                        title |-> "Adding my-addon Addon",
                        body |-> "Adding my-addon Addon to the repository",
                        base |-> "main", head |-> "feature/my-addon"] >>

\* C4: whenever the secret fetch of a run has failed, the run had pushed its
\* feature branch, has attempted no pull request, and has ended with an error.
C4_SecretFailureAfterPush ==
  \A r \in Runs :
    Failed(r, "getGitHubAccessToken") =>
      /\ Succeeded(r, "git push")
      /\ ~Executed(r, "pulls.create")
      /\ result[r] = "rejected"

\* The host refused run r's pull request because one exists for the head branch.
AlreadyExists(r) ==
  \E i \in DOMAIN trace[r] :
    trace[r][i].cmd = "pulls.create" /\ trace[r][i].arg = "PullRequestAlreadyExists"

\* C5: a run whose pull request creation failed with "already exists" does
\* not end with an error and runs the cleanup as on the success path.
C5_AlreadyExistsIsSuccess ==
  \A r \in Runs :
    AlreadyExists(r) =>
      /\ result[r] # "rejected"
      /\ CleanupCount(r) = 1

\* C6: a run whose copy step found no artifact ends with an artifact error
\* reported to the caller, and with the clone directory removed.
C6_MissingArtifact ==
  \A r \in Runs :
    (pc[r] = "done" /\ Failed(r, "cp")) =>
      /\ result[r] = "rejected"
      /\ error[r] = "ArtifactMissing"
      /\ CloneDir \notin fs.dirs

\* C7: in a run where entering the clone directory, the checkout of main or
\* the hard reset failed, none of branch creation, copy, add, commit and push
\* was executed.
C7_ResetBeforeBranch ==
  \A r \in Runs :
    (\/ Failed(r, "git checkout")
     \/ Failed(r, "git reset --hard")
     \/ \E i \in DOMAIN trace[r] :
          trace[r][i].cmd = "cd" /\ ~trace[r][i].ok) =>
      \A k \in {"git checkout -B", "cp", "git add", "git commit", "git push"} :
        ~Executed(r, k)

\* The clone command of run r failed.
CloneFailed(r) == Failed(r, "mkdir") \/ Failed(r, "git clone")

\* C8: a run whose clone failed has ended, rejected with the clone's error,
\* having run no repository command of addFileToRepo, fetched no secret and
\* attempted no pull request.
C8_CloneFailureAborts ==
  \A r \in Runs :
    CloneFailed(r) =>
      /\ pc[r] = "done"
      /\ result[r] = "rejected"
      /\ error[r] = "CloneFailed"
      /\ \A k \in RepoCommands \cup {"getGitHubAccessToken", "pulls.create"} :
           ~Executed(r, k)

C8_Witness ==
  \E r \in Runs : CloneFailed(r) /\ pc[r] = "done" /\ Len(trace[r]) = 4

\* C9: in every run - the first for an addon name or a repeated one, with the
\* branch feature/<addon> present in the fresh clone or not - once the reset
\* to the base has succeeded the branch step runs whatever git branch -D
\* answered, and when git checkout -B succeeds the clone has exactly one local
\* branch of that name, checked out.
C9_BranchCreationIdempotent ==
  \A r \in Runs :
    Succeeded(r, "git reset --hard") =>
      /\ Executed(r, "git checkout -B")
      /\ (Succeeded(r, "git checkout -B") /\ CloneDir \in fs.dirs) =>
           /\ Cardinality({b \in workspace.branches : b = HeadBranch(addonName[r])}) = 1
           /\ workspace.head = HeadBranch(addonName[r])

\* The second run in a row for an addon name whose first run went through to
\* its pull request; the fresh clone held the branch (the remote's default
\* branch), and git branch -D deleted it.
C9_Witness ==
  /\ MaxRuns >= 2
  /\ pc[2] = "getGitHubAccessToken"
  /\ PullRequest(addonName[2]) \in pulls
  /\ Succeeded(2, "git branch -D")
  /\ Succeeded(2, "git checkout -B")
  /\ workspace.head = HeadBranch(addonName[2])

\* The key the last edit selected, and the key of what the user entered.
OldKey == getAddonKey(lastRun.selected.name, lastRun.selected.version)
NewKey == getAddonKey(lastRun.entered.addonName, lastRun.entered.addonVersion)

\* The last run was the edit flow and the user changed the name or the version.
Renamed ==
  /\ lastRun.flow = "edit"
  /\ \/ lastRun.entered.addonName # lastRun.selected.name
     \/ lastRun.entered.addonVersion # lastRun.selected.version

\* C10: after an edit that changes the addon name and/or version, the
\* configuration holds a record under the key of the new (name, version) and
\* none under the key of the old one.
C10_RenameMovesRecord ==
  Renamed =>
    /\ NewKey \in DOMAIN configuration
    /\ OldKey \notin DOMAIN configuration

\* The last run was the edit flow and the user kept the name and the version.
KeptIdentity ==
  /\ lastRun.flow = "edit"
  /\ lastRun.entered.addonName = lastRun.selected.name
  /\ lastRun.entered.addonVersion = lastRun.selected.version

\* C11: after an edit that keeps the addon name and version, the
\* configuration still holds a record under that same key, and the record
\* carries the helmUrl, account id, namespace and region the user entered.
C11_EditInPlace ==
  KeptIdentity =>
    /\ OldKey \in DOMAIN configuration
    /\ configuration[OldKey].helmUrl = lastRun.entered.helmUrl
    /\ configuration[OldKey].accId = lastRun.entered.marketplaceId
    /\ configuration[OldKey].namespace = lastRun.entered.namespace
    /\ configuration[OldKey].region = lastRun.entered.region

\* The last run of configure assigned a record to the key of what was entered.
Wrote ==
  \/ lastRun.flow \in {"create", "edit"}
  \/ lastRun.flow = "flags" /\ lastRun.updated

\* C12: the record configure wrote - on the create flow, the edit flow or the
\* flag-driven flow - has validated = false, whatever validated was for that
\* key before the run.
C12_WriteClearsValidated ==
  (Wrote /\ NewKey \in DOMAIN configuration) =>
    configuration[NewKey].validated = FALSE

\* A create over a key whose stored record was marked validated.
C12_Witness ==
  /\ lastRun.flow = "create"
  /\ NewKey \in DOMAIN lastRun.before
  /\ lastRun.before[NewKey].validated
  /\ NewKey \in DOMAIN configuration
  /\ ~configuration[NewKey].validated
  /\ configuration[NewKey].accId # lastRun.before[NewKey].accId

\* The (name, version) pairs the prompts of configure accept.
Identities == Names \X Versions

\* C13: the key derived from (name, version) is injective on what configure
\* can store: no pair other than the one the create flow has just stored has
\* the key that was written.
C13_KeyInjective ==
  lastRun.flow = "create" =>
    \A id \in Identities :
      id # <<lastRun.entered.addonName, lastRun.entered.addonVersion>> =>
        getAddonKey(id[1], id[2]) # NewKey

\* The flags of the last run: one of region, namespace and helm URL was given
\* and is not valid.
InvalidFlag ==
  \/ lastRun.entered.region # Undefined /\ ~isValidRegion(lastRun.entered.region)
  \/ lastRun.entered.namespace # Undefined /\ ~isValidNamespace(lastRun.entered.namespace)
  \/ lastRun.entered.helmUrl # Undefined /\ ~isValidUrl(lastRun.entered.helmUrl)

\* The flags of the last run: the addon name or the addon version was not given.
MissingIdentity ==
  \/ lastRun.entered.addonName = Undefined
  \/ lastRun.entered.addonVersion = Undefined

\* C14: a flag-driven run given an invalid region, namespace or helm URL, or
\* no addon name or no addon version, leaves the configuration as it was and
\* does not call updateConfig.
C14_InvalidFlagsRejected ==
  (lastRun.flow = "flags" /\ (InvalidFlag \/ MissingIdentity)) =>
    /\ configuration = lastRun.before
    /\ configFile = lastRun.before
    /\ ~lastRun.updated

\* A flag-driven run with every flag given and only the region invalid.
C14_Witness ==
  /\ lastRun.flow = "flags"
  /\ \A k \in DOMAIN lastRun.entered : lastRun.entered[k] # Undefined
  /\ ~isValidRegion(lastRun.entered.region)
  /\ isValidNamespace(lastRun.entered.namespace)
  /\ isValidUrl(lastRun.entered.helmUrl)
  /\ configuration = lastRun.before
  /\ ~lastRun.updated

\* The flags of the last run: all six given, and region, namespace and helm
\* URL valid.
AllFlagsValid ==
  /\ lastRun.flow = "flags"
  /\ \A k \in DOMAIN lastRun.entered : lastRun.entered[k] # Undefined
  /\ isValidRegion(lastRun.entered.region)
  /\ isValidNamespace(lastRun.entered.namespace)
  /\ isValidUrl(lastRun.entered.helmUrl)

\* C15: a flag-driven run given all six flags, all valid, stores under the
\* key of (name, version) a record holding the given helm URL, account id,
\* namespace and region, and calls updateConfig.
C15_FlagsStoreRecord ==
  AllFlagsValid =>
    /\ NewKey \in DOMAIN configuration
    /\ configuration[NewKey].helmUrl = lastRun.entered.helmUrl
    /\ configuration[NewKey].accId = lastRun.entered.marketplaceId
    /\ configuration[NewKey].namespace = lastRun.entered.namespace
    /\ configuration[NewKey].region = lastRun.entered.region
    /\ lastRun.updated
    /\ configFile = configuration

\* C16: a run of configure that changed the in-memory configuration called
\* updateConfig, and when the run has returned the file holds the
\* configuration as the run's last write or delete left it.
C16_MutationsPersisted ==
  lastRun.n > 0 =>
    /\ configuration # lastRun.before => lastRun.updated
    /\ configFile = configuration

\* An edit that wrote one key and deleted another, both persisted.
C16_Witness ==
  /\ lastRun.flow = "edit"
  /\ NewKey # OldKey
  /\ NewKey \in DOMAIN configuration /\ NewKey \notin DOMAIN lastRun.before
  /\ OldKey \in DOMAIN lastRun.before /\ OldKey \notin DOMAIN configuration
  /\ lastRun.updated
  /\ configFile = configuration

\* The keys the last run of configure may change: the key it wrote and, on
\* the edit flow, the key of the selected addon.
Touched ==
  (IF Wrote THEN {NewKey} ELSE {}) \cup (IF lastRun.flow = "edit" THEN {OldKey} ELSE {})

\* C20: a run of configure leaves every record stored under a key other than
\* the one it wrote and, on the edit flow, the one selected, as it was; and
\* the number of records goes down by at most one in a run.
C20_Frame ==
  lastRun.n > 0 =>
    /\ \A k \in (DOMAIN lastRun.before \cup DOMAIN configuration) \ Touched :
         /\ k \in DOMAIN lastRun.before
         /\ k \in DOMAIN configuration
         /\ configuration[k] = lastRun.before[k]
    /\ Cardinality(DOMAIN configuration) >= Cardinality(DOMAIN lastRun.before) - 1

\* An edit on a configuration of two records that removed one and left the
\* other, stored under a third key, as it was.
C20_Witness ==
  /\ lastRun.flow = "edit"
  /\ Cardinality(DOMAIN configuration) = Cardinality(DOMAIN lastRun.before) - 1
  /\ \E k \in DOMAIN lastRun.before \ Touched :
       k \in DOMAIN configuration /\ configuration[k] = lastRun.before[k]

\* C17: in a run whose copy step failed for want of the artifact, none of
\* git add, git commit and git push was executed.
C17_MissingArtifactStopsChain ==
  \A r \in Runs :
    Failed(r, "cp") =>
      \A k \in {"git add", "git commit", "git push"} : ~Executed(r, k)

\* A run that got as far as the copy, on a clone with its branch checked
\* out, and found no artifact; addFileToRepo has returned.
C17_Witness ==
  \E r \in Runs :
    /\ Failed(r, "cp")
    /\ Succeeded(r, "git checkout -B")
    /\ ArtifactPath(addonName[r]) \notin fs.files
    /\ pc[r] = "getGitHubAccessToken"

\* The positions in run r's trace at which command or call k was executed.
At(r, k) == {i \in DOMAIN trace[r] : trace[r][i].cmd = k}

\* C18: a run fetches the credential at most once; when it does, the clone
\* command and the repository command have been executed before, no command
\* of either is executed after, and the pull request creation comes later;
\* and a pull request creation was preceded by a fetch that returned a string.
C18_CredentialFetchedOnceAndLate ==
  \A r \in Runs :
    /\ Cardinality(At(r, "getGitHubAccessToken")) <= 1
    /\ \A i \in At(r, "getGitHubAccessToken") :
         /\ \E j \in At(r, "git clone") : j < i /\ trace[r][j].ok
         /\ Cardinality({j \in At(r, "cd") : j < i}) = 2
         /\ \A j \in DOMAIN trace[r] :
              trace[r][j].cmd \in RepoCommands \cup {"git clone", "mkdir", "cd"} => j < i
         /\ \A j \in At(r, "pulls.create") : i < j
    /\ \A j \in At(r, "pulls.create") :
         /\ \E i \in At(r, "getGitHubAccessToken") :
              i < j /\ trace[r][i].ok /\ trace[r][i].arg = "string"
         /\ accessToken[r] = "token"

\* A run that fetched the credential after a repository command that failed
\* at the copy, and went on to ask for the pull request.
C18_Witness ==
  \E r \in Runs :
    /\ Succeeded(r, "git clone")
    /\ Failed(r, "cp")
    /\ Succeeded(r, "getGitHubAccessToken")
    /\ Executed(r, "pulls.create")
    /\ pc[r] = "done"

\* Run q has cloned and its repository command is still to run: it is using
\* the clone directory.
Using(q) == pc[q] = "addFileToRepo"

\* The step is one of run r.
StepOf(r) == pc'[r] # pc[r]

\* Every file on a feature branch of the hosted repository is the artifact of
\* that branch's addon.
OwnArtifactsOnly ==
  \A c \in remote.files : \A n \in AddonNames :
    c[1] = HeadBranch(n) => c[2] = ArtifactName(n)

\* No step of a run touches the clone directory another run is using, and
\* what a step pushes is the run's own artifact on its own branch.
Isolated ==
  /\ \A r, q \in Runs :
       (r # q /\ StepOf(r) /\ Using(q) /\ addonName[r] # addonName[q]) =>
         /\ (CloneDir \in fs'.dirs) = (CloneDir \in fs.dirs)
         /\ CloneFiles(fs') = CloneFiles(fs)
         /\ workspace' = workspace
  /\ OwnArtifactsOnly'

\* C19: with the runs for one addon name serialized, runs for different addon
\* names executing concurrently in one working directory are isolated: no
\* step of one removes, recreates or modifies the clone directory another is
\* using, and each pushes only its own artifact on its own feature branch.
C19_SerializedPerNameIsolated == [][Isolated]_vars

====
